---- MODULE Spec2Model ----
(***************************************************************************)
(* GitHub webhook receiver (BrandoonRH/webhooks-curso-node).               *)
(*                                                                         *)
(* Strings are sequences of code units (naturals); byte arrays are         *)
(* sequences of naturals in 0..255.                                        *)
(***************************************************************************)
EXTENDS Integers, Sequences, FiniteSets, TLC

VARIABLES
    secret,     \* envs.SECRET_TOKEN, loaded once at process start
    req,        \* per request: position in the middleware chain and what it has read
    vpc,        \* verifySignature called in isolation: "call" | "returned"
    vSecret,    \*   its secret argument
    vHeader,    \*   its header argument
    vPayload,   \*   its payload argument
    vResult,    \*   what the call produced
    spc,        \* the switch of webHookHandler run in isolation: "call" | "returned"
    sEvent,     \*   the x-github-event header
    sPayload,   \*   the parsed body
    sMessage    \*   what the switch produced

vars == <<secret, req, vpc, vSecret, vHeader, vPayload, vResult,
          spc, sEvent, sPayload, sMessage>>

----------------------------------------------------------------------------
(* Bounds *)

\* requests the server handles concurrently
NumRequests == 2
\* bytes of a digest (SHA-256 has 32; the model's stand-in digest is shorter)
DigestLen == 2
\* spaces a sender may put after each ':' of the raw JSON body
MaxPad == 1

----------------------------------------------------------------------------
(* Text *)

\* UTF-16 code units of the string literals the model uses
Utf16 ==
    [ action     |-> <<97, 99, 116, 105, 111, 110>>,
      sender     |-> <<115, 101, 110, 100, 101, 114>>,
      login      |-> <<108, 111, 103, 105, 110>>,
      repository |-> <<114, 101, 112, 111, 115, 105, 116, 111, 114, 121>>,
      full_name  |-> <<102, 117, 108, 108, 95, 110, 97, 109, 101>>,
      issue      |-> <<105, 115, 115, 117, 101>>,
      title      |-> <<116, 105, 116, 108, 101>>,
      user       |-> <<117, 115, 101, 114>>,
      created    |-> <<99, 114, 101, 97, 116, 101, 100>>,
      opened     |-> <<111, 112, 101, 110, 101, 100>>,
      closed     |-> <<99, 108, 111, 115, 101, 100>>,
      reopened   |-> <<114, 101, 111, 112, 101, 110, 101, 100>>,
      labeled    |-> <<108, 97, 98, 101, 108, 101, 100>>,
      alice      |-> <<97, 108, 105, 99, 101>>,
      bob        |-> <<98, 111, 98>>,
      deleted    |-> <<100, 101, 108, 101, 116, 101, 100>>,
      Star       |-> <<83, 116, 97, 114>>,
      sha256     |-> <<115, 104, 97, 50, 53, 54>>,
      sha1       |-> <<115, 104, 97, 49>>,
      undefined  |-> <<117, 110, 100, 101, 102, 105, 110, 101, 100>>,
      s3cret     |-> <<115, 51, 99, 114, 101, 116>>,
      k9         |-> <<107, 57>>,
      star       |-> <<115, 116, 97, 114>>,
      issues     |-> <<105, 115, 115, 117, 101, 115>>,
      push       |-> <<112, 117, 115, 104>>,
      unknown    |-> <<117, 110, 107, 110, 111, 119, 110>> ]
    @@ ("org/repo" :> <<111, 114, 103, 47, 114, 101, 112, 111>>)
    @@ ("Bug X" :> <<66, 117, 103, 32, 88>>)
    @@ ("a/b" :> <<97, 47, 98>>)
    @@ ("Typo" :> <<84, 121, 112, 111>>)
    @@ ("{}" :> <<123, 125>>)
    @@ ("a=1" :> <<97, 61, 49>>)
    @@ ("=" :> <<61>>)
    @@ ("{" :> <<123>>)
    @@ ("}" :> <<125>>)
    @@ (":" :> <<58>>)
    @@ ("," :> <<44>>)
    @@ ("\"" :> <<34>>)
    @@ (" " :> <<32>>)
    @@ ("User " :> <<85, 115, 101, 114, 32>>)
    @@ (" star on " :> <<32, 115, 116, 97, 114, 32, 111, 110, 32>>)
    @@ ("An issue was opened with this title " :> <<65, 110, 32, 105, 115, 115, 117, 101, 32, 119, 97, 115, 32, 111, 112, 101, 110, 101, 100, 32, 119, 105, 116, 104, 32, 116, 104, 105, 115, 32, 116, 105, 116, 108, 101, 32>>)
    @@ ("An issue was closed by " :> <<65, 110, 32, 105, 115, 115, 117, 101, 32, 119, 97, 115, 32, 99, 108, 111, 115, 101, 100, 32, 98, 121, 32>>)
    @@ ("An issue was reopened by " :> <<65, 110, 32, 105, 115, 115, 117, 101, 32, 119, 97, 115, 32, 114, 101, 111, 112, 101, 110, 101, 100, 32, 98, 121, 32>>)
    @@ ("Unhandled action for the issue event " :> <<85, 110, 104, 97, 110, 100, 108, 101, 100, 32, 97, 99, 116, 105, 111, 110, 32, 102, 111, 114, 32, 116, 104, 101, 32, 105, 115, 115, 117, 101, 32, 101, 118, 101, 110, 116, 32>>)
    @@ ("Unknown event " :> <<85, 110, 107, 110, 111, 119, 110, 32, 101, 118, 101, 110, 116, 32>>)
    @@ ("User alice created star on org/repo" :> <<85, 115, 101, 114, 32, 97, 108, 105, 99, 101, 32, 99, 114, 101, 97, 116, 101, 100, 32, 115, 116, 97, 114, 32, 111, 110, 32, 111, 114, 103, 47, 114, 101, 112, 111>>)
    @@ ("An issue was opened with this title Bug X" :> <<65, 110, 32, 105, 115, 115, 117, 101, 32, 119, 97, 115, 32, 111, 112, 101, 110, 101, 100, 32, 119, 105, 116, 104, 32, 116, 104, 105, 115, 32, 116, 105, 116, 108, 101, 32, 66, 117, 103, 32, 88>>)
    @@ ("[object Object]" :> <<91, 111, 98, 106, 101, 99, 116, 32, 79, 98, 106, 101, 99, 116, 93>>)

RECURSIVE Concat(_)
\* the concatenation of a sequence of strings
Concat(ss) == IF ss = <<>> THEN <<>> ELSE Head(ss) \o Concat(Tail(ss))

\* s contains t as a substring
Contains(s, t) ==
    \E i \in 0 .. Len(s) - Len(t) : SubSeq(s, i + 1, i + Len(t)) = t

\* the code units that differ from c in exactly one of their low eight bits
BitFlips(c) ==
    { IF (c \div (2 ^ k)) % 2 = 1 THEN c - 2 ^ k ELSE c + 2 ^ k : k \in 0 .. 7 }

\* the strings that differ from s by one bit of one code unit among positions lo..hi
Mutations(s, lo, hi) ==
    { [s EXCEPT ![i] = d] : <<i, d>> \in
        UNION { { <<j, e>> : e \in BitFlips(s[j]) } : j \in lo .. hi } }

----------------------------------------------------------------------------
(* GithubSha256Middleware: the pure part *)

\* String.prototype.split('='): the segments between the separators
RECURSIVE SplitFrom(_, _, _)
SplitFrom(s, i, cur) ==
    IF i > Len(s) THEN <<cur>>
    ELSE IF s[i] = 61 THEN <<cur>> \o SplitFrom(s, i + 1, <<>>)
    ELSE SplitFrom(s, i + 1, Append(cur, s[i]))

split(s) == SplitFrom(s, 1, <<>>)

\* a JavaScript value that may be undefined
Undefined == [def |-> FALSE, s |-> <<>>]
Defined(s) == [def |-> TRUE, s |-> s]

\* all that follows the first '=' of the header, header.slice(header.indexOf('=') + 1)
sigHexOfRest(header) ==
    LET parts == split(header)
    IN  IF Len(parts) >= 2
        THEN Defined(parts[2] \o Concat([i \in 1 .. Len(parts) - 2 |-> <<61>> \o parts[i + 2]]))
        ELSE Undefined

\* parts[1] of the split header: undefined when the header holds no '='
sigHexOf(header) ==
    LET parts == split(header)
    IN  IF Len(parts) >= 2 THEN Defined(parts[2]) ELSE Undefined

\* the UTF-8 bytes of one code unit below 0x800
encodeUnit(c) == IF c < 128 THEN <<c>> ELSE <<192 + (c \div 64), 128 + (c % 64)>>

RECURSIVE encode(_)
\* TextEncoder.encode: the UTF-8 bytes of the code units, in order (computed by
\* halves, which keeps the evaluation shallow)
encode(s) ==
    IF Len(s) = 0 THEN <<>>
    ELSE IF Len(s) = 1 THEN encodeUnit(s[1])
    ELSE LET mid == Len(s) \div 2
         IN  encode(SubSeq(s, 1, mid)) \o encode(SubSeq(s, mid + 1, Len(s)))

\* the value of a hexadecimal digit, -1 for any other code unit
HexVal(c) ==
    IF c \in 48 .. 57 THEN c - 48
    ELSE IF c \in 97 .. 102 THEN c - 87
    ELSE IF c \in 65 .. 70 THEN c - 55
    ELSE -1

\* StrWhiteSpaceChar among the code units below 256
IsWhiteSpace(c) == c \in {9, 10, 11, 12, 13, 32, 160}

RECURSIVE TrimLeft(_)
TrimLeft(s) == IF s # <<>> /\ IsWhiteSpace(Head(s)) THEN TrimLeft(Tail(s)) ELSE s

RECURSIVE HexPrefix(_, _)
\* the value of the longest prefix of hexadecimal digits of s, after acc; nan
\* when acc is nan (no digit read yet) and s starts with none
HexPrefix(s, acc) ==
    IF s = <<>> \/ HexVal(Head(s)) < 0 THEN acc
    ELSE HexPrefix(Tail(s),
                   [nan |-> FALSE,
                    val |-> (IF acc.nan THEN 0 ELSE acc.val) * 16 + HexVal(Head(s))])

\* parseInt(c, 16): leading white space, a sign and a 0x prefix are skipped, then
\* the longest prefix of hexadecimal digits is read; NaN when there is none
parseInt16(c) ==
    LET t      == TrimLeft(c)
        neg    == t # <<>> /\ Head(t) = 45
        u      == IF t # <<>> /\ Head(t) \in {43, 45} THEN Tail(t) ELSE t
        w      == IF Len(u) >= 2 /\ u[1] = 48 /\ u[2] \in {120, 88}
                  THEN SubSeq(u, 3, Len(u)) ELSE u
        r      == HexPrefix(w, [nan |-> TRUE, val |-> 0])
    IN  IF r.nan THEN r ELSE [nan |-> FALSE, val |-> IF neg THEN 0 - r.val ELSE r.val]

\* the store of a number into a Uint8Array element: NaN is 0, others modulo 256
ToUint8(n) == IF n.nan THEN 0 ELSE n.val % 256

\* hexToBytes slicing one character per byte, hex.slice(i, i + 1)
hexToBytesOneChar(hex) ==
    [i \in 1 .. (Len(hex) \div 2) |-> ToUint8(parseInt16(SubSeq(hex, 2 * i - 1, 2 * i - 1)))]

\* hexToBytes: new Uint8Array(hex.length / 2) truncates a fractional length, and
\* the loop's writes at an index past the array are dropped
hexToBytes(hex) ==
    [i \in 1 .. (Len(hex) \div 2) |-> ToUint8(parseInt16(SubSeq(hex, 2 * i - 1, 2 * i)))]

\* one round of the stand-in hash
Mix(h, b) == (h * 33 + b + 1) % (256 ^ DigestLen)

RECURSIVE Absorb(_, _)
\* the rounds for the bytes in order, from state h (computed by halves, the
\* state after the first half being evaluated before the second half starts)
Absorb(h, bytes) ==
    IF Len(bytes) = 0 THEN h
    ELSE IF Len(bytes) = 1 THEN Mix(h, bytes[1])
    ELSE LET mid  == Len(bytes) \div 2
             left == Absorb(h, SubSeq(bytes, 1, mid))
         IN  IF left >= 0 THEN Absorb(left, SubSeq(bytes, mid + 1, Len(bytes))) ELSE left

\* crypto.subtle's HMAC-SHA-256, by a stand-in keyed hash of DigestLen bytes
HmacSha256(keyBytes, dataBytes) ==
    LET h == Absorb(Absorb(5381, keyBytes), dataBytes)
    IN  [i \in 1 .. DigestLen |-> (h \div (256 ^ (DigestLen - i))) % 256]

\* crypto.subtle.verify: the signature equals the code computed over the data
subtleVerify(keyBytes, sigBytes, dataBytes) == sigBytes = HmacSha256(keyBytes, dataBytes)

\* the outcome of a call: a value returned or an exception thrown
Return(v) == [threw |-> FALSE, val |-> v]
Throw == [threw |-> TRUE, val |-> FALSE]

\* the try block of verifySignature
verifyTry(sec, header, payload) ==
    LET sigHex   == sigHexOf(header)
        keyBytes == encode(sec)
    IN  IF keyBytes = <<>> THEN Throw          \* importKey: zero-length key
        ELSE IF ~sigHex.def THEN Throw         \* hexToBytes: undefined.length
        ELSE Return(subtleVerify(keyBytes, hexToBytes(sigHex.s), encode(payload)))

\* verifySignature: whatever the try block throws is caught and answered false
verifySignature(sec, header, payload) ==
    LET r == verifyTry(sec, header, payload)
    IN  IF r.threw THEN Return(FALSE) ELSE r

----------------------------------------------------------------------------
(* The sender's side: how a delivery is signed *)

\* a nibble as a lowercase hexadecimal digit
HexDigit(n) == IF n < 10 THEN 48 + n ELSE 87 + n

RECURSIVE hex(_)
\* bytes as lowercase hexadecimal text
hex(bytes) ==
    IF bytes = <<>> THEN <<>>
    ELSE <<HexDigit(Head(bytes) \div 16), HexDigit(Head(bytes) % 16)>> \o hex(Tail(bytes))

\* hex(HMAC-SHA256(secret, body))
DigestHex(sec, body) == hex(HmacSha256(encode(sec), encode(body)))

\* "sha256=" + hex(HMAC-SHA256(secret, body))
SignedHeader(sec, body) == Utf16["sha256"] \o Utf16["="] \o DigestHex(sec, body)

\* the secrets the configuration may hold (never empty)
Secrets == {Utf16["s3cret"], Utf16["k9"]}

----------------------------------------------------------------------------
(* JSON bodies *)

\* parsed JSON values: a string, an object (its members in order), undefined
Str(x) == [t |-> "str", s |-> x, m |-> <<>>]
Obj(members) == [t |-> "obj", s |-> "", m |-> members]
Undef == [t |-> "undef", s |-> "", m |-> <<>>]
Member(k, v) == [k |-> k, v |-> v]

RECURSIVE Render(_, _)
RECURSIVE RenderMembers(_, _)
\* the JSON text of a value, with pad spaces after each ':'
Render(v, pad) ==
    IF v.t = "str" THEN Utf16["\""] \o Utf16[v.s] \o Utf16["\""]
    ELSE Utf16["{"] \o RenderMembers(v.m, pad) \o Utf16["}"]

RenderMembers(m, pad) ==
    IF m = <<>> THEN <<>>
    ELSE Utf16["\""] \o Utf16[m[1].k] \o Utf16["\""] \o Utf16[":"]
         \o [i \in 1 .. pad |-> 32] \o Render(m[1].v, pad)
         \o (IF Len(m) > 1 THEN Utf16[","] \o RenderMembers(Tail(m), pad) ELSE <<>>)

\* JSON.stringify of a parsed value: the compact text
JSONstringify(v) == Render(v, 0)

\* a raw request body: the text of a value as the sender formatted it, or text
\* that is not JSON
RawBody(v, pad) == [wf |-> TRUE, value |-> v, pad |-> pad]
BrokenBody == [wf |-> FALSE, value |-> Undef, pad |-> 0]

\* the bytes of a raw body as received
RawText(b) == IF b.wf THEN Render(b.value, b.pad) ELSE Utf16["{"]

\* express.json(): JSON.parse of the raw body; throws on text that is not JSON
JSONparse(b) == IF b.wf THEN [threw |-> FALSE, val |-> b.value]
                ELSE [threw |-> TRUE, val |-> Undef]

StarPayload ==
    Obj(<< Member("action", Str("created")),
           Member("sender", Obj(<<Member("login", Str("alice"))>>)),
           Member("repository", Obj(<<Member("full_name", Str("org/repo"))>>)) >>)

EmptyPayload == Obj(<<>>)

\* an issues payload with an action onIssue has no message for
LabeledPayload == Obj(<< Member("action", Str("labeled")) >>)

Payloads == {StarPayload, EmptyPayload, LabeledPayload}

\* the raw bodies a sender may post
RawBodies ==
    { RawBody(v, pad) : <<v, pad>> \in
        { <<w, q>> \in Payloads \X (0 .. MaxPad) : q = 0 \/ w.m # <<>> } }
    \cup {BrokenBody}

----------------------------------------------------------------------------
(* GitHubService *)

\* property access obj.key: undefined when absent or when obj is a string;
\* a TypeError when obj is undefined
Get(obj, key) ==
    IF obj.t = "undef" THEN [threw |-> TRUE, val |-> Undef]
    ELSE IF obj.t = "obj" /\ \E i \in DOMAIN obj.m : obj.m[i].k = key
    THEN [threw |-> FALSE,
          val |-> obj.m[CHOOSE i \in DOMAIN obj.m : obj.m[i].k = key].v]
    ELSE [threw |-> FALSE, val |-> Undef]

\* obj.k1.k2
Get2(obj, k1, k2) ==
    LET a == Get(obj, k1) IN IF a.threw THEN a ELSE Get(a.val, k2)

\* obj.k1.k2.k3
Get3(obj, k1, k2, k3) ==
    LET a == Get2(obj, k1, k2) IN IF a.threw THEN a ELSE Get(a.val, k3)

\* a value inside a template literal
TemplateText(v) ==
    IF v.t = "str" THEN Utf16[v.s]
    ELSE IF v.t = "undef" THEN Utf16["undefined"]
    ELSE Utf16["[object Object]"]

\* a message returned, or an exception thrown
Message(text) == [threw |-> FALSE, val |-> text]
TypeError == [threw |-> TRUE, val |-> <<>>]

\* onStar naming the repository where the user belongs and the user where the
\* repository belongs
onStarSwapped(payload) ==
    LET who   == Get2(payload, "sender", "login")
        what  == Get(payload, "action")
        where == Get2(payload, "repository", "full_name")
    IN  IF who.threw \/ where.threw THEN TypeError
        ELSE Message(Utf16["User "] \o TemplateText(where.val) \o Utf16[" "]
                     \o TemplateText(what.val) \o Utf16[" star on "] \o TemplateText(who.val))

\* onStar: `User ${sender.login} ${action} star on ${repository.full_name}`
onStar(payload) ==
    LET who   == Get2(payload, "sender", "login")
        what  == Get(payload, "action")
        where == Get2(payload, "repository", "full_name")
    IN  IF who.threw \/ where.threw THEN TypeError
        ELSE Message(Utf16["User "] \o TemplateText(who.val) \o Utf16[" "]
                     \o TemplateText(what.val) \o Utf16[" star on "] \o TemplateText(where.val))

\* the last return of onIssue without the action
unhandledActionUnnamed(action) ==
    Message(Utf16["Unhandled action for the issue event "])

\* the last return of onIssue: `Unhandled action for the issue event ${action}`
unhandledAction(action) ==
    Message(Utf16["Unhandled action for the issue event "] \o TemplateText(action))

\* onIssue naming payload.sender.login, who closed or reopened the issue,
\* instead of issue.user.login
onIssueBySender(payload) ==
    LET act    == Get(payload, "action").val
        title  == Get2(payload, "issue", "title")
        sender == Get2(payload, "sender", "login")
    IN  IF act = Str("opened")
        THEN IF title.threw THEN TypeError
             ELSE Message(Utf16["An issue was opened with this title "]
                          \o TemplateText(title.val))
        ELSE IF act = Str("closed")
        THEN IF sender.threw THEN TypeError
             ELSE Message(Utf16["An issue was closed by "] \o TemplateText(sender.val))
        ELSE IF act = Str("reopened")
        THEN IF sender.threw THEN TypeError
             ELSE Message(Utf16["An issue was reopened by "] \o TemplateText(sender.val))
        ELSE unhandledAction(act)

\* onIssue: one message per handled action, a notice for any other action
onIssue(payload) ==
    LET act      == Get(payload, "action").val
        title    == Get2(payload, "issue", "title")
        reporter == Get3(payload, "issue", "user", "login")
    IN  IF act = Str("opened")
        THEN IF title.threw THEN TypeError
             ELSE Message(Utf16["An issue was opened with this title "]
                          \o TemplateText(title.val))
        ELSE IF act = Str("closed")
        THEN IF reporter.threw THEN TypeError
             ELSE Message(Utf16["An issue was closed by "] \o TemplateText(reporter.val))
        ELSE IF act = Str("reopened")
        THEN IF reporter.threw THEN TypeError
             ELSE Message(Utf16["An issue was reopened by "] \o TemplateText(reporter.val))
        ELSE unhandledAction(act)

----------------------------------------------------------------------------
(* Requests *)

\* a header that may be absent
NoHeader == [def |-> FALSE, s |-> <<>>]
Header(s) == [def |-> TRUE, s |-> s]

\* `${req.headers['x-hub-signature-256']}`
xHubSignatureOf(h) == IF h.def THEN h.s ELSE Utf16["undefined"]

\* req.header("x-github-event") ?? "unknown"
githubEventOf(h) == IF h.def THEN h.s ELSE Utf16["unknown"]

\* the switch of webHookHandler: which branch runs
BranchOf(githubEvent) ==
    IF githubEvent = Utf16["star"] THEN "onStar"
    ELSE IF githubEvent = Utf16["issues"] THEN "onIssue"
    ELSE "default"

\* the default branch without the event type
unknownEventUnnamed(githubEvent) == Message(Utf16["Unknown event "])

\* the default branch of the switch: `Unknown event ${githubEvent}`
unknownEvent(githubEvent) == Message(Utf16["Unknown event "] \o githubEvent)

\* the switch of webHookHandler: the message, or what the summarizer throws
dispatch(githubEvent, payload) ==
    IF githubEvent = Utf16["star"] THEN onStar(payload)
    ELSE IF githubEvent = Utf16["issues"] THEN onIssue(payload)
    ELSE unknownEvent(githubEvent)

\* the handler mounted for every method, app.all("/api/github", ...)
RouteMatchesAnyMethod(method, path) == path = "/api/github"

\* app.post("/api/github", ...)
RouteMatches(method, path) == method = "POST" /\ path = "/api/github"

Routes == { <<"POST", "/api/github">>, <<"GET", "/api/github">>, <<"POST", "/other">> }

EventHeaders ==
    { NoHeader, Header(Utf16["star"]), Header(Utf16["issues"]), Header(Utf16["push"]),
      Header(Utf16["Star"]) }

\* the signature headers a sender may attach to a body: none, the signature of
\* the raw bytes, the signature of the compact re-serialization, the signature
\* of another body
SigHeadersFor(sec, b) ==
    {NoHeader, Header(SignedHeader(sec, RawText(b)))}
    \cup (IF b.wf
          THEN { Header(SignedHeader(sec, JSONstringify(b.value))),
                 Header(SignedHeader(sec, Utf16["a=1"])) }
          ELSE {})

\* a response not yet sent
NoResponse == [status |-> 0, body |-> ""]

IdleRequest ==
    [ pc       |-> "idle",
      method   |-> "", path |-> "",
      raw      |-> BrokenBody,     \* the body as received
      sig      |-> NoHeader,       \* x-hub-signature-256
      event    |-> NoHeader,       \* x-github-event, once webHookHandler has read it
      body     |-> Undef,          \* req.body
      isValid  |-> "none",         \* "none" | "true" | "false"
      ran      |-> "none",         \* the branch of the switch that ran
      message  |-> TypeError,      \* what dispatch produced
      posts    |-> 0,              \* outbound POSTs issued
      fetch    |-> "none",         \* "none" | "pending" | "2xx" | "non2xx" | "neterr"
      notified |-> "none",         \* what notify resolved to: "none" | "true" | "false"
      sent     |-> 0,              \* responses sent
      res      |-> NoResponse ]

Requests == 1 .. NumRequests

Respond(q, status, body) ==
    [q EXCEPT !.pc = "done", !.sent = @ + 1, !.res = [status |-> status, body |-> body]]

TypeOK ==
    /\ secret \in Secrets
    /\ \A r \in Requests :
        /\ req[r].pc \in {"idle", "received", "parsed", "verifying", "routing",
                          "notifying", "settled", "done"}
        /\ req[r].res.status \in {0, 202, 400, 401, 404, 500}

Init ==
    /\ secret \in Secrets
    /\ req = [r \in Requests |-> IdleRequest]
    /\ vpc = "idle"
    /\ vSecret = <<>>
    /\ vHeader = <<>>
    /\ vPayload = <<>>
    /\ vResult = Return(FALSE)
    /\ spc = "idle"
    /\ sEvent = NoHeader
    /\ sPayload = Undef
    /\ sMessage = TypeError

\* a request arrives (requests are numbered in the order of their arrival),
\* with one of the given routes and bodies
ReceiveFrom(r, routes, bodies) ==
    /\ req[r].pc = "idle"
    /\ IF r = 1 THEN TRUE ELSE req[r - 1].pc # "idle"
    /\ \E route \in routes, b \in bodies :
         \E sg \in SigHeadersFor(secret, b) :
            req' = [req EXCEPT ![r] =
                      [@ EXCEPT !.pc = "received", !.method = route[1],
                                !.path = route[2], !.raw = b, !.sig = sg]]
    /\ UNCHANGED <<secret, vpc, vSecret, vHeader, vPayload, vResult,
                 spc, sEvent, sPayload, sMessage>>

\* a request arrives
Receive(r) == ReceiveFrom(r, Routes, RawBodies)

\* app.use(express.json()): the body is parsed, or the request is refused
ExpressJson(r) ==
    /\ req[r].pc = "received"
    /\ LET parsed == JSONparse(req[r].raw)
       IN  req' = [req EXCEPT ![r] =
                     IF parsed.threw
                     THEN Respond(req[r], 400, "Bad Request")
                     ELSE [@ EXCEPT !.pc = "parsed", !.body = parsed.val]]
    /\ UNCHANGED <<secret, vpc, vSecret, vHeader, vPayload, vResult,
                 spc, sEvent, sPayload, sMessage>>

\* verifyGithubSignature up to its await of verifySignature
VerifyGithubSignature(r) ==
    /\ req[r].pc = "parsed"
    /\ req' = [req EXCEPT ![r].pc = "verifying"]
    /\ UNCHANGED <<secret, vpc, vSecret, vHeader, vPayload, vResult,
                 spc, sEvent, sPayload, sMessage>>

\* the outcome of verifyGithubSignature for a request
isValidFor(q) ==
    verifySignature(secret, xHubSignatureOf(q.sig), JSONstringify(q.body)).val

\* the middleware calling next() whatever the verification returned
passesAlways(isValid) == TRUE

\* the middleware with its test inverted, if (!isValid) next()
passesInverted(isValid) == ~isValid

\* verifyGithubSignature after the await: next() when the signature is valid,
\* the response otherwise
passes(isValid) == isValid

\* res.status(401)
invalidSignatureStatus == 401

\* the 401 answered without the JSON body
invalidSignatureBare == "Unauthorized"

\* .json({ error: 'Invalid signature' })
invalidSignatureBody == "{\"error\":\"Invalid signature\"}"

\* the middleware answering 401 and calling next() all the same
VerifyResumeFallsThrough(r, isValid) ==
    /\ req[r].pc = "verifying"
    /\ LET q == [req[r] EXCEPT !.isValid = IF isValid THEN "true" ELSE "false"]
       IN  req' = [req EXCEPT ![r] =
                     IF passes(isValid)
                     THEN [q EXCEPT !.pc = "routing"]
                     ELSE [Respond(q, invalidSignatureStatus, invalidSignatureBody)
                             EXCEPT !.pc = "routing"]]
    /\ UNCHANGED <<secret, vpc, vSecret, vHeader, vPayload, vResult,
                 spc, sEvent, sPayload, sMessage>>

\* the middleware resumes after its await with what verifySignature returned
VerifyResumeWith(r, isValid) ==
    /\ req[r].pc = "verifying"
    /\ LET q == [req[r] EXCEPT !.isValid = IF isValid THEN "true" ELSE "false"]
       IN  req' = [req EXCEPT ![r] =
                     IF passes(isValid)
                     THEN [q EXCEPT !.pc = "routing"]
                     ELSE Respond(q, invalidSignatureStatus, invalidSignatureBody)]
    /\ UNCHANGED <<secret, vpc, vSecret, vHeader, vPayload, vResult,
                 spc, sEvent, sPayload, sMessage>>

VerifyResume(r) == VerifyResumeWith(r, isValidFor(req[r]))

\* no route matches the request: Express answers 404
NotFound(r) ==
    /\ req[r].pc = "routing"
    /\ ~RouteMatches(req[r].method, req[r].path)
    /\ req' = [req EXCEPT ![r] = Respond(req[r], 404, "Not Found")]
    /\ UNCHANGED <<secret, vpc, vSecret, vHeader, vPayload, vResult,
                 spc, sEvent, sPayload, sMessage>>

\* the payload kept in a place all requests share, here the body of the first
payloadOfShared(rq, r) == rq[1].body

\* const payload = req.body: the body of the request being handled
payloadOf(rq, r) == rq[r].body

\* webHookHandler: the x-github-event header of the request is read (ev: the
\* header the sender attached), the switch runs, then notify is called up to
\* its await of fetch; what a summarizer throws reaches Express, which answers 500
WebHookHandler(r) ==
    /\ req[r].pc = "routing"
    /\ RouteMatches(req[r].method, req[r].path)
    /\ \E ev \in EventHeaders :
         LET githubEvent == githubEventOf(ev)
             message     == dispatch(githubEvent, payloadOf(req, r))
             q           == [req[r] EXCEPT !.event = ev,
                                           !.ran = BranchOf(githubEvent),
                                           !.message = message]
         IN  req' = [req EXCEPT ![r] =
                       IF message.threw
                       THEN Respond(q, 500, "Internal Server Error")
                       ELSE [q EXCEPT !.pc = "notifying", !.posts = @ + 1,
                                      !.fetch = "pending"]]
    /\ UNCHANGED <<secret, vpc, vSecret, vHeader, vPayload, vResult,
                 spc, sEvent, sPayload, sMessage>>

\* the try block of notify once fetch has settled: a network error makes the
\* await throw, a response that is not ok returns false, an ok response true
notifyTry(outcome) ==
    IF outcome = "neterr" THEN "threw"
    ELSE IF outcome # "2xx" THEN "false"
    ELSE "true"

\* notify without its catch block: what the await throws rejects the promise
notifyNoCatch(outcome) ==
    IF notifyTry(outcome) = "threw" THEN "rejected" ELSE notifyTry(outcome)

\* what the promise of notify settles to: the catch block returns false
notifyResult(outcome) ==
    IF notifyTry(outcome) = "threw" THEN "false" ELSE notifyTry(outcome)

\* the outbound POST settles and notify resolves
FetchSettles(r) ==
    /\ req[r].pc = "notifying"
    /\ \E outcome \in {"2xx", "non2xx", "neterr"} :
         req' = [req EXCEPT ![r] =
                   [@ EXCEPT !.pc = "settled", !.fetch = outcome,
                             !.notified = notifyResult(outcome)]]
    /\ UNCHANGED <<secret, vpc, vSecret, vHeader, vPayload, vResult,
                 spc, sEvent, sPayload, sMessage>>

\* the .then and .catch callbacks swapped
handlerStatusSwapped(notified) == IF notified \in {"true", "false"} THEN 500 ELSE 202

\* the status webHookHandler answers once the promise of notify has settled:
\* .then on a fulfilled promise (whatever its value), .catch on a rejected one
handlerStatus(notified) == IF notified \in {"true", "false"} THEN 202 ELSE 500

\* the callbacks of webHookHandler sending nothing, .then(() => {})
HandlerRespondsNothing(r) ==
    /\ req[r].pc = "settled"
    /\ req' = [req EXCEPT ![r].pc = "done"]
    /\ UNCHANGED <<secret, vpc, vSecret, vHeader, vPayload, vResult,
                 spc, sEvent, sPayload, sMessage>>

\* the .then / .catch callbacks of webHookHandler
HandlerResponds(r) ==
    /\ req[r].pc = "settled"
    /\ req' = [req EXCEPT ![r] =
                 IF handlerStatus(req[r].notified) = 202
                 THEN Respond(req[r], 202, "Accepted")
                 ELSE Respond(req[r], 500, "{\"error\":\"internal server error\"}")]
    /\ UNCHANGED <<secret, vpc, vSecret, vHeader, vPayload, vResult,
                 spc, sEvent, sPayload, sMessage>>

Next ==
    \E r \in Requests :
        \/ Receive(r)
        \/ ExpressJson(r)
        \/ VerifyGithubSignature(r)
        \/ VerifyResume(r)
        \/ NotFound(r)
        \/ WebHookHandler(r)
        \/ FetchSettles(r)
        \/ HandlerResponds(r)

Spec == Init /\ [][Next]_vars

\* the steps the server takes on a request by itself, once it has arrived
ServerStep(r) ==
    \/ ExpressJson(r)
    \/ VerifyGithubSignature(r)
    \/ VerifyResume(r)
    \/ NotFound(r)
    \/ WebHookHandler(r)
    \/ HandlerResponds(r)

\* the requests of the runs in which every ready step is eventually taken
FewRoutes == { <<"POST", "/api/github">>, <<"GET", "/api/github">> }
FewBodies == { RawBody(EmptyPayload, 0), BrokenBody }

ReceiveFew(r) == ReceiveFrom(r, FewRoutes, FewBodies)

NextFair ==
    \E r \in Requests :
        \/ ReceiveFew(r)
        \/ ServerStep(r)
        \/ FetchSettles(r)

\* a step of the server on a request that is ready for one: as ServerStep, the
\* middleware resuming after its await whatever verifySignature returned
ReadyStep(r) ==
    \/ ExpressJson(r)
    \/ VerifyGithubSignature(r)
    \/ \E isValid \in BOOLEAN : VerifyResumeWith(r, isValid)
    \/ NotFound(r)
    \/ WebHookHandler(r)
    \/ HandlerResponds(r)

\* the event loop runs every callback that is ready: each step of the server is
\* eventually taken; a sender need not send, and the outbound POST need not settle
Fairness == \A r \in Requests : WF_vars(ReadyStep(r))

SpecFair == Init /\ [][NextFair]_vars /\ Fairness

----------------------------------------------------------------------------
(* verifySignature called on its own *)

\* payloads that are signed
SignedPayloads == {Utf16["{}"], Utf16["a=1"], <<123, 233, 125>>}

\* each byte of a digest written in a way parseInt reads as that byte although
\* the text is not two hexadecimal digits, where there is one
LaxByte(b) ==
    IF b = 0 THEN {<<122, 122>>, <<48, 120>>, <<45, 48>>}
    ELSE IF b < 16 THEN {<<HexDigit(b), 122>>, <<32, HexDigit(b)>>, <<43, HexDigit(b)>>}
    ELSE IF b > 240 THEN {<<45, HexDigit(256 - b)>>}
    ELSE {}

\* the digest texts that differ from hex(d) in one byte's two characters
LaxDigests(d) ==
    { SubSeq(hex(d), 1, 2 * i - 2) \o t \o SubSeq(hex(d), 2 * i + 1, 2 * Len(d)) :
        <<i, t>> \in UNION { { <<j, u>> : u \in LaxByte(d[j]) } : j \in 1 .. Len(d) } }

\* the headers tried against a payload signed with sec
HeadersFor(sec, p) ==
    LET dh   == DigestHex(sec, p)
        good == SignedHeader(sec, p)
        pre  == Utf16["sha256"] \o Utf16["="]
    IN  {good}
        \cup Mutations(good, Len(pre) + 1, Len(good))
        \cup { pre \o t : t \in LaxDigests(HmacSha256(encode(sec), encode(p))) }
        \cup { pre \o [dh EXCEPT ![i] = 122] : i \in 1 .. Len(dh) }
        \cup { Utf16["sha256"] \o dh, dh, <<>>, Utf16["undefined"] }
        \cup { pre \o SubSeq(dh, 1, Len(dh) - 1), pre \o SubSeq(dh, 1, Len(dh) - 2),
                pre \o dh \o <<48>>, pre \o dh \o <<48, 48>>, pre }
        \cup { Utf16["sha1"] \o Utf16["="] \o dh, Utf16["="] \o dh,
                pre \o Utf16["="] \o dh, good \o Utf16["="] \o <<120>> }

VInit ==
    /\ secret = Utf16["s3cret"]
    /\ req = [r \in Requests |-> IdleRequest]
    /\ vpc = "call"
    /\ vSecret \in Secrets
    /\ \E p \in SignedPayloads :
          \/ vPayload = p /\ vHeader \in HeadersFor(vSecret, p)
          \/ vPayload \in Mutations(p, 1, Len(p)) /\ vHeader = SignedHeader(vSecret, p)
    /\ vResult = Return(FALSE)
    /\ spc = "idle"
    /\ sEvent = NoHeader
    /\ sPayload = Undef
    /\ sMessage = TypeError

\* the call returns (or throws)
VerifySignatureCall ==
    /\ vpc = "call"
    /\ vpc' = "returned"
    /\ vResult' = verifySignature(vSecret, vHeader, vPayload)
    /\ UNCHANGED <<secret, req, vSecret, vHeader, vPayload,
                 spc, sEvent, sPayload, sMessage>>

VNext == VerifySignatureCall

SpecVerify == VInit /\ [][VNext]_vars

----------------------------------------------------------------------------
(* The switch of webHookHandler run on its own *)

\* a star payload
StarEvent(action, login, fullName) ==
    Obj(<< Member("action", Str(action)),
           Member("sender", Obj(<<Member("login", Str(login))>>)),
           Member("repository", Obj(<<Member("full_name", Str(fullName))>>)) >>)

\* an issues payload: the issue with its title and its reporter, and the sender
IssueEvent(action, title, reporter, sender) ==
    Obj(<< Member("action", Str(action)),
           Member("issue", Obj(<< Member("title", Str(title)),
                                  Member("user", Obj(<<Member("login", Str(reporter))>>)) >>)),
           Member("sender", Obj(<<Member("login", Str(sender))>>)) >>)

\* the issues payload of an opened issue that carries its title only
OpenedTitleOnly ==
    Obj(<< Member("action", Str("opened")),
           Member("issue", Obj(<<Member("title", Str("Bug X"))>>)) >>)

StarActions == {"created", "deleted", "labeled"}
IssueActions == {"opened", "closed", "reopened", "labeled"}
Logins == {"alice", "bob"}
RepoNames == {"org/repo", "a/b"}
Titles == {"Bug X", "Typo"}

\* the payloads the switch is run on
SummaryPayloads ==
    { StarEvent(a, u, n) : <<a, u, n>> \in StarActions \X Logins \X RepoNames }
    \cup { IssueEvent(a, t, u, w) :
             <<a, t, u, w>> \in IssueActions \X Titles \X Logins \X Logins }
    \cup { EmptyPayload, LabeledPayload, OpenedTitleOnly,
             Obj(<<Member("action", Str("closed"))>>),
             Obj(<<Member("action", Str("closed")), Member("issue", Obj(<<>>))>>) }

SInit ==
    /\ secret = Utf16["s3cret"]
    /\ req = [r \in Requests |-> IdleRequest]
    /\ vpc = "idle"
    /\ vSecret = <<>>
    /\ vHeader = <<>>
    /\ vPayload = <<>>
    /\ vResult = Return(FALSE)
    /\ spc = "call"
    /\ sEvent \in EventHeaders
    /\ sPayload \in SummaryPayloads
    /\ sMessage = TypeError

\* the switch runs and produces its message (or throws)
SummaryCall ==
    /\ spc = "call"
    /\ spc' = "returned"
    /\ sMessage' = dispatch(githubEventOf(sEvent), sPayload)
    /\ UNCHANGED <<secret, req, vpc, vSecret, vHeader, vPayload, vResult,
                   sEvent, sPayload>>

SNext == SummaryCall

SpecSummary == SInit /\ [][SNext]_vars

----------------------------------------------------------------------------
(* Properties of the request pipeline *)

\* the request was answered
Answered(r) == req[r].sent > 0

\* verifyGithubSignature has decided on the request
Verified(r) == req[r].isValid # "none"

\* the outbound POST of the request has settled
FetchDone(r) == req[r].fetch \in {"2xx", "non2xx", "neterr"}

\* C1: an authenticated delivery whose notification failed is answered 500,
\* never 202
C1_FailedNotifyAnswered500 ==
    \A r \in Requests :
        (req[r].isValid = "true" /\ req[r].notified = "false" /\ Answered(r))
            => req[r].res.status = 500

\* C2: a branch of the switch runs for a request only after verification
\* returned true for it, and notify is called for a request only after
\* dispatch produced a message for it, whatever the other requests do
C2_DispatchAfterVerifyNotifyAfterDispatch ==
    \A r \in Requests :
        /\ req[r].ran # "none" => req[r].isValid = "true"
        /\ req[r].posts > 0 => (req[r].ran # "none" /\ ~req[r].message.threw)

C2_Witness ==
    \E r, o \in Requests :
        /\ r # o
        /\ req[r].posts > 0 /\ req[r].isValid = "true"
        /\ req[o].pc = "verifying"

\* C3 as stated: every request whose signature header is missing or fails
\* verification is answered 401 {"error": "Invalid signature"}, and neither
\* dispatch nor notify runs for it
C3_Original ==
    \A r \in Requests :
        (Answered(r) /\ (~req[r].sig.def \/ req[r].isValid = "false"))
            => /\ req[r].res = [status |-> 401, body |-> "{\"error\":\"Invalid signature\"}"]
               /\ req[r].ran = "none" /\ req[r].posts = 0

\* C3 amended: every request that reaches verifyGithubSignature (express.json()
\* accepted its body) and whose signature header is missing or fails
\* verification is answered 401 {"error": "Invalid signature"} as soon as the
\* verification returns; neither dispatch nor notify ever runs for it and no
\* other response follows
C3_RejectedIsTerminal ==
    \A r \in Requests :
        (Verified(r) /\ (~req[r].sig.def \/ req[r].isValid = "false"))
            => /\ req[r].res = [status |-> 401, body |-> "{\"error\":\"Invalid signature\"}"]
               /\ req[r].pc = "done" /\ req[r].sent = 1
               /\ req[r].ran = "none" /\ req[r].posts = 0 /\ req[r].fetch = "none"

C3_Witness ==
    \E r, o \in Requests :
        /\ ~req[r].sig.def /\ req[r].res.status = 401
        /\ req[o].sig.def /\ req[o].isValid = "false" /\ req[o].res.status = 401

\* C4: the signature is verified over the raw body bytes as received: a
\* header signed over the raw bytes is accepted, a header signed over any other
\* byte sequence is rejected
C4_VerifiedOverRawBytes ==
    \A r \in Requests :
        (Verified(r) /\ req[r].sig.def)
            => (req[r].isValid = "true"
                    <=> req[r].sig.s = SignedHeader(secret, RawText(req[r].raw)))

\* C9: an authenticated delivery whose outbound POST was answered 2xx is
\* answered 202
C9_DeliveredAnswered202 ==
    \A r \in Requests :
        (req[r].isValid = "true" /\ req[r].fetch = "2xx" /\ req[r].pc = "done")
            => (req[r].res = [status |-> 202, body |-> "Accepted"] /\ req[r].sent = 1)

C9_Witness ==
    \E r \in Requests :
        req[r].isValid = "true" /\ req[r].fetch = "2xx" /\ req[r].res.status = 202

\* C10: an authenticated request is answered 202 or 500 only after its
\* outbound POST has settled
C10_ResponseAfterNotify ==
    \A r \in Requests :
        (req[r].isValid = "true" /\ req[r].res.status \in {202, 500}) => FetchDone(r)

\* C12: notify never rejects: once the outbound POST has settled its promise is
\* fulfilled, with true when the response was 2xx and with false when it was
\* not 2xx or the POST failed at the network level
C12_NotifyNeverRejects ==
    \A r \in Requests :
        FetchDone(r) =>
            /\ req[r].notified \in {"true", "false"}
            /\ req[r].notified = "true" <=> req[r].fetch = "2xx"

C12_Witness ==
    \E r \in Requests : req[r].fetch = "neterr" /\ req[r].notified = "false"

Delivery(r) == req[r].method = "POST" /\ req[r].path = "/api/github"

\* C13: once a delivery is answered, it has caused exactly one outbound POST
\* when it was authenticated and none when it was rejected
C13_OnePostPerDelivery ==
    \A r \in Requests :
        (Delivery(r) /\ req[r].pc = "done")
            => req[r].posts = (IF req[r].isValid = "true" THEN 1 ELSE 0)

\* C14: for an event type other than "star" and "issues" the switch throws
\* nothing and produces a message that contains the event type, and the message
\* is handed to notify
C14_UnknownEventForwarded ==
    \A r \in Requests :
        (req[r].ran # "none" /\ req[r].event.def
            /\ req[r].event.s \notin {Utf16["star"], Utf16["issues"]})
            => /\ ~req[r].message.threw
               /\ Contains(req[r].message.val, req[r].event.s)
               /\ req[r].message.val = Utf16["Unknown event "] \o req[r].event.s
               /\ req[r].posts = 1 /\ req[r].fetch # "none"

C14_Witness ==
    \E r \in Requests :
        /\ req[r].event = Header(Utf16["Star"]) /\ req[r].ran = "default"
        /\ req[r].posts = 1 /\ Answered(r)

\* C15: onStar and onIssue throw nothing whatever fields the payload lacks: a
\* message is produced and handed to notify, and the request is answered 202
\* or 500 once notify has settled
C15_AbsentFieldsTolerated ==
    \A r \in Requests :
        req[r].ran \in {"onStar", "onIssue"}
            => /\ ~req[r].message.threw
               /\ req[r].posts = 1
               /\ Answered(r) => (req[r].res.status \in {202, 500} /\ FetchDone(r))

\* what the switch produces for a request handled with no other request around
AloneMessage(q) == dispatch(githubEventOf(q.event), JSONparse(q.raw).val)

\* the status a request is answered with when handled with no other request
\* around: the middleware chain applied to its own body and headers
AloneStatus(q) ==
    LET parsed == JSONparse(q.raw)
    IN  IF parsed.threw THEN 400
        ELSE IF ~verifySignature(secret, xHubSignatureOf(q.sig),
                                 JSONstringify(parsed.val)).val THEN 401
        ELSE IF ~(q.method = "POST" /\ q.path = "/api/github") THEN 404
        ELSE IF AloneMessage(q).threw THEN 500
        ELSE handlerStatus(notifyResult(q.fetch))

\* the body and headers of two requests are the same
SameInputs(q, p) ==
    /\ q.method = p.method /\ q.path = p.path /\ q.raw = p.raw
    /\ q.sig = p.sig /\ q.event = p.event

\* C16: whatever the interleaving, a request is answered with the status, and
\* posts the message, it would get if it were handled alone; two requests with
\* the same body and headers get the same status and post the same message
C16_RequestsIndependent ==
    /\ \A r \in Requests :
          Answered(r) =>
            /\ req[r].res.status = AloneStatus(req[r])
            /\ req[r].posts > 0 => req[r].message = AloneMessage(req[r])
    /\ \A r, o \in Requests :
          (Answered(r) /\ Answered(o) /\ SameInputs(req[r], req[o]))
            => /\ req[r].res = req[o].res
               /\ req[r].message = req[o].message
               /\ req[r].posts = req[o].posts

C16_Witness ==
    /\ req[1].pc = "notifying"
    /\ Answered(2) /\ req[2].res.status = 202
    /\ req[1].body # req[2].body

\* C19: for an issues event whose action is none of opened, closed, reopened,
\* onIssue throws nothing and its message contains the action; the message is
\* handed to notify like any other
C19_UnhandledActionNamed ==
    \A r \in Requests :
        LET action == Get(req[r].body, "action").val
        IN  (req[r].ran = "onIssue" /\ action.t = "str"
                /\ action.s \notin {"opened", "closed", "reopened"})
                => /\ ~req[r].message.threw
                   /\ Contains(req[r].message.val, Utf16[action.s])
                   /\ req[r].posts = 1 /\ req[r].fetch # "none"
                   /\ Answered(r) => FetchDone(r)

C19_Witness ==
    \E r \in Requests :
        /\ req[r].ran = "onIssue" /\ req[r].body = LabeledPayload
        /\ req[r].posts = 1 /\ Answered(r)

\* how far a request has come: received, body parsed, verification called,
\* verification returned, switch run and notify called, notify settled, answered
Rank(pc) ==
    CASE pc = "idle"      -> 0
      [] pc = "received"  -> 1
      [] pc = "parsed"    -> 2
      [] pc = "verifying" -> 3
      [] pc = "routing"   -> 4
      [] pc = "notifying" -> 5
      [] pc = "settled"   -> 6
      [] pc = "done"      -> 7

\* C21: a request takes the steps Receive, Verify, Dispatch, Notify, Acknowledge
\* in that order: it never goes back and takes no step twice, the switch runs
\* only once verification has returned true, notify is called only with the
\* message the switch produced, the answer to an authenticated request is sent
\* only once notify has settled, and the verdict of the verification is not
\* touched again once the switch has run
C21_StepsInOrder ==
    [][\A r \in Requests :
          /\ req'[r].pc # req[r].pc => Rank(req'[r].pc) > Rank(req[r].pc)
          /\ req'[r].isValid # req[r].isValid
                => (req[r].isValid = "none" /\ req[r].ran = "none")
          /\ req'[r].ran # req[r].ran
                => (req[r].ran = "none" /\ req[r].isValid = "true")
          /\ req'[r].posts # req[r].posts
                => (req[r].posts = 0 /\ req'[r].posts = 1 /\ ~req'[r].message.threw)
          /\ (req'[r].sent # req[r].sent /\ req[r].isValid = "true"
                  /\ req[r].method = "POST" /\ req[r].path = "/api/github")
                => FetchDone(r)
     ]_vars

\* C22: with every ready step of the server eventually taken, a request that
\* was received is eventually answered or is waiting for its outbound POST, and
\* a request whose outbound POST has settled is eventually answered, whatever
\* the other requests do; a request waiting for its outbound POST is not
\* answered, and nothing but the POST settling ends the wait
C22_AnsweredUnlessPostHangs ==
    /\ \A r \in Requests :
          /\ (req[r].pc = "received") ~> (Answered(r) \/ req[r].pc = "notifying")
          /\ (req[r].pc = "settled") ~> Answered(r)
    /\ [](\A r \in Requests : req[r].pc = "notifying" => ~Answered(r))
    /\ [][\A r \in Requests :
            (req[r].pc = "notifying" /\ req'[r].pc # "notifying")
                => (FetchDone(r)' /\ ~Answered(r)')]_vars

\* one request waits for its outbound POST while a request that arrived after
\* it has been answered
C22_Witness ==
    /\ req[1].pc = "notifying" /\ req[1].fetch = "pending"
    /\ Answered(2) /\ req[2].fetch = "2xx"

\* C23: at most one response is sent for a request: a request answered 401 by
\* the middleware never reached the handler, and a request answered by the
\* handler was answered once, with 202 or with 500
C23_AtMostOneResponse ==
    \A r \in Requests :
        /\ req[r].sent <= 1
        /\ req[r].sent = 0 <=> req[r].res = NoResponse
        /\ req[r].res.status = 401
              => (req[r].ran = "none" /\ req[r].posts = 0 /\ req[r].notified = "none")
        /\ req[r].ran # "none" => req[r].res.status \in {0, 202, 500}

C23_Witness ==
    \E r, o \in Requests :
        /\ req[r].res.status = 401 /\ req[r].sent = 1
        /\ req[o].res.status = 202 /\ req[o].sent = 1

\* C24: the signature is checked before any route is looked at: a request that
\* reaches verifyGithubSignature with a missing or invalid signature is answered
\* 401 whatever its method and path, the switch never runs for it, and 404 is
\* answered to authenticated requests only
C24_GateBeforeRouting ==
    \A r \in Requests :
        /\ (Verified(r) /\ req[r].isValid = "false")
              => (req[r].res.status = 401 /\ req[r].ran = "none")
        /\ (Verified(r) /\ ~req[r].sig.def) => req[r].isValid = "false"
        /\ (req[r].ran # "none" \/ req[r].res.status = 404)
              => (req[r].sig.def /\ req[r].isValid = "true")

C24_Witness ==
    \E r, o \in Requests :
        /\ req[r].method = "GET" /\ req[r].isValid = "false" /\ req[r].res.status = 401
        /\ req[o].path = "/other" /\ ~req[o].sig.def /\ req[o].res.status = 401

\* C25: an authenticated request without x-github-event header gets the message
\* "Unknown event unknown", which is handed to notify, and it is answered once
\* notify has settled, 202 when the notification was delivered and 500 when it
\* failed
C25_NoEventHeaderIsUnknown ==
    \A r \in Requests :
        (req[r].ran # "none" /\ ~req[r].event.def)
            => /\ req[r].ran = "default"
               /\ req[r].message = Message(Utf16["Unknown event "] \o Utf16["unknown"])
               /\ req[r].posts = 1
               /\ Answered(r)
                     => /\ FetchDone(r)
                        /\ req[r].res.status = (IF req[r].fetch = "2xx" THEN 202 ELSE 500)

----------------------------------------------------------------------------
(* Properties of the switch of webHookHandler *)

C18_IssueMessage ==
    /\ \A t \in Titles, u \in Logins, w \in Logins :
          (spc = "returned" /\ sEvent = Header(Utf16["issues"])) =>
            /\ sPayload = IssueEvent("opened", t, u, w)
                  => sMessage = Message(Utf16["An issue was opened with this title "]
                                        \o Utf16[t])
            /\ sPayload = IssueEvent("closed", t, u, w)
                  => sMessage = Message(Utf16["An issue was closed by "] \o Utf16[u])
            /\ sPayload = IssueEvent("reopened", t, u, w)
                  => sMessage = Message(Utf16["An issue was reopened by "] \o Utf16[u])
    /\ (spc = "returned" /\ sEvent = Header(Utf16["issues"]) /\ sPayload = OpenedTitleOnly)
          => sMessage = Message(Utf16["An issue was opened with this title Bug X"])

C18_Witness ==
    /\ spc = "returned" /\ sEvent = Header(Utf16["issues"])
    /\ sPayload = IssueEvent("closed", "Typo", "alice", "bob")
    /\ sMessage = Message(Utf16["An issue was closed by "] \o Utf16["alice"])

----------------------------------------------------------------------------
(* Properties of verifySignature *)

\* the position of the first '=' of h, 0 when there is none
FirstEq(h) == IF \E i \in DOMAIN h : h[i] = 61
              THEN CHOOSE i \in DOMAIN h : h[i] = 61 /\ \A j \in 1 .. i - 1 : h[j] # 61
              ELSE 0

\* the algorithm tag of a header: what precedes its first '='
TagOf(h) == SubSeq(h, 1, FirstEq(h) - 1)

\* the digest part of a header: what follows its first '='
DigestOf(h) == SubSeq(h, FirstEq(h) + 1, Len(h))

\* a header with no '=', with a digest part that is not all hexadecimal digits,
\* or with a digest part of the wrong length
Malformed(h) ==
    \/ FirstEq(h) = 0
    \/ \E i \in DOMAIN DigestOf(h) : HexVal(DigestOf(h)[i]) < 0
    \/ Len(DigestOf(h)) # 2 * DigestLen

\* C5: verifySignature returns true for the header "sha256=" + hex(HMAC-SHA256(
\* secret, body)) and that body, for every secret and body
C5_SignedAccepted ==
    (vpc = "returned" /\ vHeader = SignedHeader(vSecret, vPayload))
        => vResult = Return(TRUE)

C5_Witness ==
    vpc = "returned" /\ vHeader = SignedHeader(vSecret, vPayload) /\ vResult.val

\* the call was made with a correctly signed header of which one bit of one
\* digest character was flipped
DigestBitFlipped ==
    LET good == SignedHeader(vSecret, vPayload)
    IN  vHeader \in Mutations(good, Len(good) - 2 * DigestLen + 1, Len(good))

\* the call was made with a header signed for a payload from which the payload
\* given differs in one bit
BodyBitFlipped ==
    \E p \in SignedPayloads :
        vPayload \in Mutations(p, 1, Len(p)) /\ vHeader = SignedHeader(vSecret, p)

\* C6: a single-bit mutation of the body or of the hex digest characters of a
\* correctly signed header makes verifySignature return false
C6_AnyBitFlipRejected ==
    (vpc = "returned" /\ (DigestBitFlipped \/ BodyBitFlipped)) => ~vResult.val

\* C7: for every malformed header verifySignature returns false and no
\* exception escapes
C7_MalformedRejected ==
    (vpc = "returned" /\ Malformed(vHeader)) => vResult = Return(FALSE)

\* C8: verifySignature returns false whenever the tag before '=' is not "sha256"
C8_BadTagRejected ==
    (vpc = "returned" /\ FirstEq(vHeader) > 0 /\ TagOf(vHeader) # Utf16["sha256"])
        => ~vResult.val

\* the segment of a header between its first and its second '=' (to the end
\* when there is one '='), absent when the header holds no '='
SegmentOf(h) ==
    IF FirstEq(h) = 0 THEN Undefined
    ELSE LET rest == DigestOf(h)
         IN  Defined(IF FirstEq(rest) = 0 THEN rest ELSE SubSeq(rest, 1, FirstEq(rest) - 1))

\* headers with the segment of h, under other tags and with other text after a
\* second '='
SameSegment(h) ==
    IF FirstEq(h) = 0 THEN {<<>>, Utf16["sha256"], h \o <<120>>}
    ELSE { t \o <<61>> \o SegmentOf(h).s \o u :
             t \in {<<>>, Utf16["sha1"], Utf16["sha256"], TagOf(h)},
             u \in {<<>>, <<61>>, <<61, 120>>, <<61>> \o SegmentOf(h).s} }

\* C26: what verifySignature returns depends on the header only through the
\* segment between its first and its second '=': every header with the same
\* segment gets the same result for the same secret and payload
C26_OnlySegmentMatters ==
    vpc = "returned" =>
        \A g \in SameSegment(vHeader) :
            /\ SegmentOf(g) = SegmentOf(vHeader)
            /\ verifySignature(vSecret, g, vPayload) = vResult

C26_Witness ==
    /\ vpc = "returned" /\ vResult.val
    /\ vHeader = SignedHeader(vSecret, vPayload) \o <<61, 120>>

====
